---- MODULE Spec2Model ----
(***************************************************************************)
(* Model of arqtiva-shared-utils: the AWS client factory                   *)
(* (clients/aws-clients.js) and the environment validation utilities       *)
(* (utils/environment.js).                                                 *)
(*                                                                         *)
(* JavaScript values are modelled as follows.  An object reference is a    *)
(* positive integer (two references are identical iff the integers are     *)
(* equal), null is 0 and undefined is -1, so that `===` is integer         *)
(* equality and truthiness of a reference is `> 0`.  A string that is      *)
(* built by concatenation is a sequence of string pieces.                  *)
(***************************************************************************)
EXTENDS Integers, Sequences, FiniteSets, TLC

\* ---------------------------------------------------------------- bounds
\* number of client objects the SDK constructors may build in one run
MaxHandles == 3
\* length of the requiredVars array handed to validateEnvironment
MaxLen == 3

\* ------------------------------------------------------------ JS values
NULL == 0
UNDEF == 0 - 1
Truthy(v) == v > 0
\* a sequence without its last entry
Front(xs) == SubSeq(xs, 1, Len(xs) - 1)

\* objects the test harness creates itself and may register as substitutes
MockObjs == {101}
\* objects built by the SDK constructors
Built == 1..MaxHandles

Kinds == {"cognito", "dynamodb"}

\* values of process.env.NODE_ENV ("" stands for: not set)
NodeEnvs == {"", "test", "production"}

\* names of the environment variables a caller may require, and the values
\* process.env can hold for them: "UNSET" (no such variable), "" or a text
VarNames == {"A", "B"}
UNSET == "UNSET"
VarValues == {UNSET, "", "v"}

VARIABLES
  nodeEnv,                  \* process.env.NODE_ENV
  procEnv,                  \* process.env restricted to VarNames
  loaded,                   \* the aws-clients module has been loaded
  cognitoClient,            \* module variable cognitoClient
  dynamoDbClient,           \* module variable dynamoDbClient
  dynamoDbDocumentClient,   \* module variable dynamoDbDocumentClient
  mockCognitoClient,        \* global.mockCognitoClient
  mockDynamoDbDocumentClient, \* global.mockDynamoDbDocumentClient
  nextId,                   \* identity of the next object a constructor builds
  last,                     \* outcome of the last call made by the caller
  returned,                 \* history: handles returned per kind since the last reset
  preReset,                 \* history: handles returned per kind before the last reset
  consoleWarn               \* what the last call wrote with console.warn

vars == <<nodeEnv, procEnv, loaded, cognitoClient, dynamoDbClient,
          dynamoDbDocumentClient, mockCognitoClient,
          mockDynamoDbDocumentClient, nextId, last, returned, preReset,
          consoleWarn>>

registryVars == <<loaded, cognitoClient, dynamoDbClient,
                  dynamoDbDocumentClient, nextId, returned, preReset>>
globalVars == <<mockCognitoClient, mockDynamoDbDocumentClient>>

NoCall == [op |-> "none"]

\* ------------------------------------------------- clients/aws-clients.js
\* The module state as one record, so that calls can be composed.
ModuleState ==
  [cog |-> cognitoClient, base |-> dynamoDbClient,
   doc |-> dynamoDbDocumentClient, nid |-> nextId, returned |-> returned]

\* a call outcome: the state it leaves and either a returned value or a throw
Returns(st, kind, v) ==
  [st |-> [st EXCEPT !.returned[kind] = @ \cup {v}],
   threw |-> FALSE, value |-> v]
Throws(st) == [st |-> st, threw |-> TRUE, value |-> UNDEF]

\* createCognitoClient() without the `if (cognitoClient)` early return
createCognitoClient_nomemo(st, ctorFails) ==
  IF nodeEnv = "test" /\ Truthy(mockCognitoClient)
    THEN Returns([st EXCEPT !.cog = mockCognitoClient], "cognito",
                 mockCognitoClient)
  ELSE IF ctorFails THEN Throws(st)
  ELSE Returns([st EXCEPT !.cog = st.nid, !.nid = st.nid + 1], "cognito",
               st.nid)

\* createCognitoClient() handing out one shared pre-built instance
createCognitoClient_shared(st, ctorFails) ==
  IF Truthy(st.cog) THEN Returns(st, "cognito", st.cog)
  ELSE IF nodeEnv = "test" /\ Truthy(mockCognitoClient)
    THEN Returns([st EXCEPT !.cog = mockCognitoClient], "cognito",
                 mockCognitoClient)
  ELSE IF ctorFails THEN Throws(st)
  ELSE Returns([st EXCEPT !.cog = 1, !.nid = IF st.nid = 1 THEN 2 ELSE st.nid],
               "cognito", 1)

\* createCognitoClient() without the mock-injection branch
createCognitoClient_nomock(st, ctorFails) ==
  IF Truthy(st.cog) THEN Returns(st, "cognito", st.cog)
  ELSE IF ctorFails THEN Throws(st)
  ELSE Returns([st EXCEPT !.cog = st.nid, !.nid = st.nid + 1], "cognito",
               st.nid)

\* createCognitoClient(); ctorFails: `new CognitoIdentityProviderClient` throws
createCognitoClient(st, ctorFails) ==
  IF Truthy(st.cog) THEN Returns(st, "cognito", st.cog)
  ELSE IF nodeEnv = "test" /\ Truthy(mockCognitoClient)
    THEN Returns([st EXCEPT !.cog = mockCognitoClient], "cognito",
                 mockCognitoClient)
  ELSE IF ctorFails THEN Throws(st)
  ELSE Returns([st EXCEPT !.cog = st.nid, !.nid = st.nid + 1], "cognito",
               st.nid)

\* createDynamoDbDocumentClient() leaving the low-level client in the
\* document slot when the wrapping fails
createDynamoDbDocumentClient_keepsPartial(st, baseFails, fromFails) ==
  IF Truthy(st.doc) THEN Returns(st, "dynamodb", st.doc)
  ELSE IF nodeEnv = "test" /\ Truthy(mockDynamoDbDocumentClient)
    THEN Returns([st EXCEPT !.doc = mockDynamoDbDocumentClient], "dynamodb",
                 mockDynamoDbDocumentClient)
  ELSE IF ~Truthy(st.base) /\ baseFails THEN Throws(st)
  ELSE LET s1 == IF ~Truthy(st.base)
                   THEN [st EXCEPT !.base = st.nid, !.nid = st.nid + 1]
                   ELSE st
       IN IF fromFails THEN Throws([s1 EXCEPT !.doc = s1.base])
          ELSE Returns([s1 EXCEPT !.doc = s1.nid, !.nid = s1.nid + 1],
                       "dynamodb", s1.nid)

\* createDynamoDbDocumentClient(); baseFails: `new DynamoDBClient` throws,
\* fromFails: `DynamoDBDocumentClient.from` throws
createDynamoDbDocumentClient(st, baseFails, fromFails) ==
  IF Truthy(st.doc) THEN Returns(st, "dynamodb", st.doc)
  ELSE IF nodeEnv = "test" /\ Truthy(mockDynamoDbDocumentClient)
    THEN Returns([st EXCEPT !.doc = mockDynamoDbDocumentClient], "dynamodb",
                 mockDynamoDbDocumentClient)
  ELSE IF ~Truthy(st.base) /\ baseFails THEN Throws(st)
  ELSE LET s1 == IF ~Truthy(st.base)
                   THEN [st EXCEPT !.base = st.nid, !.nid = st.nid + 1]
                   ELSE st
       IN IF fromFails THEN Throws(s1)
          ELSE Returns([s1 EXCEPT !.doc = s1.nid, !.nid = s1.nid + 1],
                       "dynamodb", s1.nid)

\* initializeClients()
initializeClients(st, ctorFails, baseFails, fromFails) ==
  IF nodeEnv # "test"
    THEN LET r1 == createCognitoClient(st, ctorFails)
         IN IF r1.threw THEN r1
            ELSE LET r2 == createDynamoDbDocumentClient(r1.st, baseFails,
                                                        fromFails)
                 IN IF r2.threw THEN r2
                    ELSE [st |-> r2.st, threw |-> FALSE, value |-> UNDEF]
    ELSE [st |-> st, threw |-> FALSE, value |-> UNDEF]

\* resetClients() that forgets the document client
resetClients_partial(st) ==
  [st EXCEPT !.cog = NULL, !.base = NULL]

\* resetClients()
resetClients(st) ==
  [st EXCEPT !.cog = NULL, !.base = NULL, !.doc = NULL]

\* getClientHealth()
getClientHealth ==
  [cognito |->
     [initialized |-> Truthy(cognitoClient),
      isMock |-> nodeEnv = "test" /\ cognitoClient = mockCognitoClient],
   dynamodb |->
     [initialized |-> Truthy(dynamoDbDocumentClient),
      isMock |-> nodeEnv = "test"
                 /\ dynamoDbDocumentClient = mockDynamoDbDocumentClient]]

\* the constructors build at most MaxHandles objects in a run
CanBuild(st) == st.nid <= MaxHandles + 1

Install(st) ==
  /\ cognitoClient' = st.cog
  /\ dynamoDbClient' = st.base
  /\ dynamoDbDocumentClient' = st.doc
  /\ nextId' = st.nid
  /\ returned' = st.returned

\* require('./clients/aws-clients'): the module body ends with
\* initializeClients(); a throw there makes the require fail and the module
\* instance is discarded.
LoadModule ==
  /\ ~loaded
  /\ \E ctorFails, baseFails, fromFails \in BOOLEAN :
       LET r == initializeClients(ModuleState, ctorFails, baseFails, fromFails)
       IN /\ CanBuild(r.st)
          /\ loaded' = ~r.threw
          /\ IF r.threw
               THEN Install([resetClients(ModuleState) EXCEPT
                               !.nid = r.st.nid,
                               !.returned = [k \in Kinds |-> {}]])
               ELSE Install(r.st)
          /\ last' = [op |-> "load", threw |-> r.threw]
  /\ UNCHANGED <<nodeEnv, procEnv, globalVars, preReset, consoleWarn>>

\* getCognitoClient() / createCognitoClient() called by a service
GetCognitoClient ==
  /\ loaded
  /\ \E ctorFails \in BOOLEAN :
       LET r == createCognitoClient(ModuleState, ctorFails)
       IN /\ CanBuild(r.st)
          /\ Install(r.st)
          /\ last' = [op |-> "getClient", kind |-> "cognito",
                      threw |-> r.threw, value |-> r.value,
                      held |-> Truthy(cognitoClient),
                      repeat |-> returned["cognito"] # {}]
  /\ UNCHANGED <<nodeEnv, procEnv, loaded, globalVars, preReset, consoleWarn>>

\* getDynamoDbClient() / createDynamoDbDocumentClient() called by a service
GetDynamoDbClient ==
  /\ loaded
  /\ \E baseFails, fromFails \in BOOLEAN :
       LET r == createDynamoDbDocumentClient(ModuleState, baseFails, fromFails)
       IN /\ CanBuild(r.st)
          /\ Install(r.st)
          /\ last' = [op |-> "getClient", kind |-> "dynamodb",
                      threw |-> r.threw, value |-> r.value,
                      held |-> Truthy(dynamoDbDocumentClient),
                      repeat |-> returned["dynamodb"] # {}]
  /\ UNCHANGED <<nodeEnv, procEnv, loaded, globalVars, preReset, consoleWarn>>

\* initializeClients() called again through the module's exports
InitializeClients ==
  /\ loaded
  /\ \E ctorFails, baseFails, fromFails \in BOOLEAN :
       LET r == initializeClients(ModuleState, ctorFails, baseFails, fromFails)
       IN /\ CanBuild(r.st)
          /\ Install(r.st)
          /\ last' = [op |-> "initializeClients", threw |-> r.threw]
  /\ UNCHANGED <<nodeEnv, procEnv, loaded, globalVars, preReset, consoleWarn>>

\* resetClients() called by a test
ResetClients ==
  /\ loaded
  /\ LET st == resetClients(ModuleState)
     IN /\ cognitoClient' = st.cog
        /\ dynamoDbClient' = st.base
        /\ dynamoDbDocumentClient' = st.doc
  /\ preReset' = [k \in Kinds |-> preReset[k] \cup returned[k]]
  /\ returned' = [k \in Kinds |-> {}]
  /\ last' = [op |-> "resetClients"]
  /\ UNCHANGED <<nodeEnv, procEnv, loaded, globalVars, nextId, consoleWarn>>

\* ------------------------------------------------------ the test harness
\* test/setup.js: global.mockCognitoClient = ... (also null, or deleted)
SetMockCognitoClient ==
  /\ \E v \in MockObjs \cup {NULL, UNDEF} :
       /\ v # mockCognitoClient
       /\ mockCognitoClient' = v
  /\ last' = [op |-> "harness"]
  /\ UNCHANGED <<nodeEnv, procEnv, registryVars, mockDynamoDbDocumentClient,
                 consoleWarn>>

\* test/setup.js: global.mockDynamoDbDocumentClient = ...
SetMockDynamoDbDocumentClient ==
  /\ \E v \in MockObjs \cup {NULL, UNDEF} :
       /\ v # mockDynamoDbDocumentClient
       /\ mockDynamoDbDocumentClient' = v
  /\ last' = [op |-> "harness"]
  /\ UNCHANGED <<nodeEnv, procEnv, registryVars, mockCognitoClient,
                 consoleWarn>>

\* test/setup.js: process.env.NODE_ENV = ...
SetNodeEnv ==
  /\ \E v \in NodeEnvs :
       /\ v # nodeEnv
       /\ nodeEnv' = v
  /\ last' = [op |-> "harness"]
  /\ UNCHANGED <<procEnv, registryVars, globalVars, consoleWarn>>

InitRegistry ==
  /\ nodeEnv \in NodeEnvs
  /\ procEnv = [n \in VarNames |-> UNSET]
  /\ loaded = FALSE
  /\ cognitoClient = NULL
  /\ dynamoDbClient = NULL
  /\ dynamoDbDocumentClient = NULL
  /\ mockCognitoClient = UNDEF
  /\ mockDynamoDbDocumentClient = UNDEF
  /\ nextId = 1
  /\ last = NoCall
  /\ returned = [k \in Kinds |-> {}]
  /\ preReset = [k \in Kinds |-> {}]
  /\ consoleWarn = <<>>

Init == InitRegistry

Next ==
  \/ LoadModule
  \/ GetCognitoClient
  \/ GetDynamoDbClient
  \/ InitializeClients
  \/ ResetClients
  \/ SetMockCognitoClient
  \/ SetMockDynamoDbDocumentClient
  \/ SetNodeEnv

Spec == Init /\ [][Next]_vars

\* ------------------------------------------------- utils/environment.js
\* an option that the caller may leave out is "undefined"; destructuring
\* defaults apply to "undefined" only
Default(v, d) == IF v = "undefined" THEN d ELSE v

\* !process.env[varName]: the variable is absent or the empty string
Falsy(v) == v = UNSET \/ v = ""

\* requiredVars.filter(varName => !process.env[varName]) that treats an
\* empty value as present
RECURSIVE filterMissing_unsetOnly(_)
filterMissing_unsetOnly(requiredVars) ==
  IF requiredVars = <<>> THEN <<>>
  ELSE (IF procEnv[Head(requiredVars)] = UNSET
          THEN <<Head(requiredVars)>> ELSE <<>>)
       \o filterMissing_unsetOnly(Tail(requiredVars))

\* the same filter, collecting each missing name once
RECURSIVE filterMissing_dedup(_)
filterMissing_dedup(requiredVars) ==
  IF requiredVars = <<>> THEN <<>>
  ELSE LET rest == filterMissing_dedup(Front(requiredVars))
           v == requiredVars[Len(requiredVars)]
       IN IF Falsy(procEnv[v]) /\ \A i \in 1..Len(rest) : rest[i] # v
            THEN Append(rest, v) ELSE rest

\* requiredVars.filter(varName => !process.env[varName])
RECURSIVE filterMissing(_)
filterMissing(requiredVars) ==
  IF requiredVars = <<>> THEN <<>>
  ELSE (IF Falsy(procEnv[Head(requiredVars)])
          THEN <<Head(requiredVars)>> ELSE <<>>)
       \o filterMissing(Tail(requiredVars))

\* missing.join(', ')
RECURSIVE join(_, _)
join(xs, sep) ==
  IF xs = <<>> THEN <<>>
  ELSE IF Len(xs) = 1 THEN <<xs[1]>>
  ELSE <<xs[1], sep>> \o join(Tail(xs), sep)

\* `${serviceName}: Missing environment variables: ${missing.join(', ')}`
warningMessage(serviceName, missing) ==
  <<serviceName, ": Missing environment variables: ">> \o join(missing, ", ")

\* validateEnvironment that never skips by default
validateEnvironment_noDefaultSkip(requiredVars, options) ==
  LET serviceName == Default(options.serviceName, "unknown-service")
      skipInProduction == Default(options.skipInProduction, "false")
      throwOnMissing == Default(options.throwOnMissing, "false")
      missing == filterMissing(requiredVars)
      msg == warningMessage(serviceName, missing)
      inspected == {requiredVars[i] : i \in 1..Len(requiredVars)}
  IN IF skipInProduction = "true" /\ nodeEnv = "production"
       THEN [threw |-> FALSE, warned |-> <<>>, inspected |-> {},
             value |-> [valid |-> TRUE, missing |-> <<>>, warnings |-> <<>>]]
     ELSE IF missing # <<>> /\ throwOnMissing = "true"
       THEN [threw |-> TRUE, warned |-> <<msg>>, inspected |-> inspected,
             error |-> [name |-> "Error", message |-> msg]]
     ELSE [threw |-> FALSE,
           warned |-> IF missing # <<>> THEN <<msg>> ELSE <<>>,
           inspected |-> inspected,
           value |-> [valid |-> missing = <<>>, missing |-> missing,
                      warnings |-> IF missing # <<>> THEN <<msg>> ELSE <<>>,
                      serviceName |-> serviceName]]

\* validateEnvironment that reports every result as valid
validateEnvironment_alwaysValid(requiredVars, options) ==
  LET serviceName == Default(options.serviceName, "unknown-service")
      skipInProduction == Default(options.skipInProduction, "true")
      throwOnMissing == Default(options.throwOnMissing, "false")
      missing == filterMissing(requiredVars)
      msg == warningMessage(serviceName, missing)
      inspected == {requiredVars[i] : i \in 1..Len(requiredVars)}
  IN IF skipInProduction = "true" /\ nodeEnv = "production"
       THEN [threw |-> FALSE, warned |-> <<>>, inspected |-> {},
             value |-> [valid |-> TRUE, missing |-> <<>>, warnings |-> <<>>]]
     ELSE IF missing # <<>> /\ throwOnMissing = "true"
       THEN [threw |-> TRUE, warned |-> <<msg>>, inspected |-> inspected,
             error |-> [name |-> "Error", message |-> msg]]
     ELSE [threw |-> FALSE,
           warned |-> IF missing # <<>> THEN <<msg>> ELSE <<>>,
           inspected |-> inspected,
           value |-> [valid |-> TRUE, missing |-> missing,
                      warnings |-> IF missing # <<>> THEN <<msg>> ELSE <<>>,
                      serviceName |-> serviceName]]

\* validateEnvironment that only warns, whatever throwOnMissing says
validateEnvironment_neverThrows(requiredVars, options) ==
  LET serviceName == Default(options.serviceName, "unknown-service")
      skipInProduction == Default(options.skipInProduction, "true")
      missing == filterMissing(requiredVars)
      msg == warningMessage(serviceName, missing)
      inspected == {requiredVars[i] : i \in 1..Len(requiredVars)}
  IN IF skipInProduction = "true" /\ nodeEnv = "production"
       THEN [threw |-> FALSE, warned |-> <<>>, inspected |-> {},
             value |-> [valid |-> TRUE, missing |-> <<>>, warnings |-> <<>>]]
     ELSE [threw |-> FALSE,
           warned |-> IF missing # <<>> THEN <<msg>> ELSE <<>>,
           inspected |-> inspected,
           value |-> [valid |-> missing = <<>>, missing |-> missing,
                      warnings |-> IF missing # <<>> THEN <<msg>> ELSE <<>>,
                      serviceName |-> serviceName]]

\* validateEnvironment(requiredVars, options).  The outcome records what the
\* call wrote with console.warn (warned) and which variables it read
\* (inspected).
validateEnvironment(requiredVars, options) ==
  LET serviceName == Default(options.serviceName, "unknown-service")
      skipInProduction == Default(options.skipInProduction, "true")
      throwOnMissing == Default(options.throwOnMissing, "false")
      missing == filterMissing(requiredVars)
      msg == warningMessage(serviceName, missing)
      inspected == {requiredVars[i] : i \in 1..Len(requiredVars)}
  IN IF skipInProduction = "true" /\ nodeEnv = "production"
       THEN [threw |-> FALSE, warned |-> <<>>, inspected |-> {},
             value |-> [valid |-> TRUE, missing |-> <<>>, warnings |-> <<>>]]
     ELSE IF missing # <<>> /\ throwOnMissing = "true"
       THEN [threw |-> TRUE, warned |-> <<msg>>, inspected |-> inspected,
             error |-> [name |-> "Error", message |-> msg]]
     ELSE [threw |-> FALSE,
           warned |-> IF missing # <<>> THEN <<msg>> ELSE <<>>,
           inspected |-> inspected,
           value |-> [valid |-> missing = <<>>, missing |-> missing,
                      warnings |-> IF missing # <<>> THEN <<msg>> ELSE <<>>,
                      serviceName |-> serviceName]]

\* the arrays and option objects a caller passes
RequiredVarsInputs == UNION {[1..n -> VarNames] : n \in 0..MaxLen}
OptionalBool == {"undefined", "true", "false"}
OptionsInputs ==
  [serviceName : {"undefined", "svc"}, skipInProduction : OptionalBool,
   throwOnMissing : OptionalBool]

\* a service calls validateEnvironment(requiredVars, options)
ValidateEnvironment ==
  /\ \E requiredVars \in RequiredVarsInputs, options \in OptionsInputs :
       LET r == validateEnvironment(requiredVars, options)
       IN /\ last' = [op |-> "validateEnvironment",
                      requiredVars |-> requiredVars, options |-> options,
                      threw |-> r.threw, inspected |-> r.inspected,
                      result |-> IF r.threw THEN r.error ELSE r.value]
          /\ consoleWarn' = r.warned
  /\ UNCHANGED <<nodeEnv, procEnv, registryVars, globalVars>>

InitEnv ==
  /\ nodeEnv \in NodeEnvs
  /\ procEnv \in [VarNames -> VarValues]
  /\ loaded = FALSE
  /\ cognitoClient = NULL
  /\ dynamoDbClient = NULL
  /\ dynamoDbDocumentClient = NULL
  /\ mockCognitoClient = UNDEF
  /\ mockDynamoDbDocumentClient = UNDEF
  /\ nextId = 1
  /\ last = NoCall
  /\ returned = [k \in Kinds |-> {}]
  /\ preReset = [k \in Kinds |-> {}]
  /\ consoleWarn = <<>>

NextEnv == ValidateEnvironment

SpecEnv == InitEnv /\ [][NextEnv]_vars

\* --------------------------- utils/environment.js: service catalog, getEnvVar
\* SERVICE_ENV_VARS
SERVICE_ENV_VARS ==
  [x \in {"auth-service", "user-management-service"} |->
     <<"DYNAMODB_TABLE_NAME", "COGNITO_USER_POOL_ID",
       "COGNITO_USER_POOL_CLIENT_ID">>]
  @@ ("organizations-service" :>
        <<"DYNAMODB_TABLE", "COGNITO_USER_POOL_ID",
          "COGNITO_USER_POOL_CLIENT_ID">>)

\* the environment variables the catalog names
CatalogKeys ==
  {"DYNAMODB_TABLE_NAME", "DYNAMODB_TABLE", "COGNITO_USER_POOL_ID",
   "COGNITO_USER_POOL_CLIENT_ID"}

\* service names a caller passes: the catalog's and two it does not know
ServiceNames == DOMAIN SERVICE_ENV_VARS \cup {"unknown-service", "billing"}

\* { serviceName, ...options }: an option the caller gives overrides
\* serviceName ("undefined" stands for a key the caller left out)
spreadOptions(serviceName, options) ==
  [options EXCEPT !.serviceName =
     IF options.serviceName = "undefined" THEN serviceName
     ELSE options.serviceName]

\* validateServiceEnvironment falling back to the auth-service keys
validateServiceEnvironment_fallback(serviceName, options) ==
  LET requiredVars == IF serviceName \in DOMAIN SERVICE_ENV_VARS
                        THEN SERVICE_ENV_VARS[serviceName]
                        ELSE SERVICE_ENV_VARS["auth-service"]
  IN validateEnvironment(requiredVars, spreadOptions(serviceName, options))

\* validateServiceEnvironment(serviceName, options)
validateServiceEnvironment(serviceName, options) ==
  LET requiredVars == IF serviceName \in DOMAIN SERVICE_ENV_VARS
                        THEN SERVICE_ENV_VARS[serviceName]
                        ELSE <<>>
  IN validateEnvironment(requiredVars, spreadOptions(serviceName, options))

\* the JavaScript null as a defaultValue / return value of getEnvVar
JSNULL == "<null>"

\* getEnvVar that lets a default satisfy `required`
getEnvVar_defaultFirst(varName, defaultValue, required) ==
  LET dflt == Default(defaultValue, JSNULL)
      req == Default(required, "false")
      value == procEnv[varName]
      resolved == IF Falsy(value) THEN dflt ELSE value
  IN IF (resolved = JSNULL \/ resolved = "") /\ req = "true"
       THEN [threw |-> TRUE,
             error |-> [name |-> "Error",
                        message |-> <<"Required environment variable ",
                                      varName, " is not set">>]]
       ELSE [threw |-> FALSE, value |-> resolved]

\* getEnvVar(varName, defaultValue = null, required = false)
getEnvVar(varName, defaultValue, required) ==
  LET dflt == Default(defaultValue, JSNULL)
      req == Default(required, "false")
      value == procEnv[varName]
  IN IF Falsy(value) /\ req = "true"
       THEN [threw |-> TRUE,
             error |-> [name |-> "Error",
                        message |-> <<"Required environment variable ",
                                      varName, " is not set">>]]
       ELSE [threw |-> FALSE,
             value |-> IF Falsy(value) THEN dflt ELSE value]

\* no call has been made yet in this run
Idle == last.op = "none"

\* a service calls validateServiceEnvironment(serviceName, options)
ValidateServiceEnvironment ==
  /\ Idle
  /\ \E serviceName \in ServiceNames, options \in OptionsInputs :
       LET r == validateServiceEnvironment(serviceName, options)
       IN /\ last' = [op |-> "validateServiceEnvironment",
                      serviceName |-> serviceName, options |-> options,
                      threw |-> r.threw, inspected |-> r.inspected,
                      result |-> IF r.threw THEN r.error ELSE r.value]
          /\ consoleWarn' = r.warned
  /\ UNCHANGED <<nodeEnv, procEnv, registryVars, globalVars>>

DefaultValueInputs == {"undefined", JSNULL, "", "d"}

\* a service calls getEnvVar(varName, defaultValue, required)
GetEnvVar ==
  /\ Idle
  /\ \E varName \in CatalogKeys, defaultValue \in DefaultValueInputs,
        required \in OptionalBool :
       LET r == getEnvVar(varName, defaultValue, required)
       IN last' = [op |-> "getEnvVar", varName |-> varName,
                   defaultValue |-> defaultValue, required |-> required,
                   threw |-> r.threw,
                   result |-> IF r.threw THEN r.error ELSE r.value]
  /\ UNCHANGED <<nodeEnv, procEnv, registryVars, globalVars, consoleWarn>>

\* the parts of the initial state the environment utilities never touch
RegistryUntouched ==
  /\ loaded = FALSE
  /\ cognitoClient = NULL
  /\ dynamoDbClient = NULL
  /\ dynamoDbDocumentClient = NULL
  /\ mockCognitoClient = UNDEF
  /\ mockDynamoDbDocumentClient = UNDEF
  /\ nextId = 1
  /\ returned = [k \in Kinds |-> {}]
  /\ preReset = [k \in Kinds |-> {}]

InitSvc ==
  /\ nodeEnv \in NodeEnvs
  /\ procEnv \in [CatalogKeys -> VarValues]
  /\ RegistryUntouched
  /\ last = NoCall
  /\ consoleWarn = <<>>

NextSvc ==
  \/ ValidateServiceEnvironment
  \/ GetEnvVar

SpecSvc == InitSvc /\ [][NextSvc]_vars

\* ------------------- utils/environment.js: isTestEnvironment, masking
\* A text that is searched or re-cased is a sequence of characters.
\* text.includes(sub)
includes(text, sub) ==
  \E i \in 0..(Len(text) - Len(sub)) : SubSeq(text, i + 1, i + Len(sub)) = sub

\* a variable of process.env that is not set, where values are texts
UnsetText == <<"UNSET">>

\* A JavaScript value of an expression: its type and its printed form.
JSBool(b) == [t |-> "boolean", v |-> IF b THEN "true" ELSE "false"]
JSString(x) == [t |-> "string", v |-> x]
JSUndefined == [t |-> "undefined", v |-> "undefined"]
\* !!x
ToBoolean(x) ==
  \/ x.t = "boolean" /\ x.v = "true"
  \/ x.t = "string" /\ x.v # ""

\* process.env.NODE_ENV === 'test' || process.env.JEST_WORKER_ID ||
\* process.env.npm_lifecycle_event?.includes('test')
testEnvironmentExpr ==
  IF nodeEnv = "test" THEN JSBool(TRUE)
  ELSE IF ~Falsy(procEnv.JEST_WORKER_ID)
    THEN JSString(procEnv.JEST_WORKER_ID)
  ELSE IF procEnv.npm_lifecycle_event = UnsetText THEN JSUndefined
  ELSE JSBool(includes(procEnv.npm_lifecycle_event, <<"t", "e", "s", "t">>))

\* isTestEnvironment() returning the expression without `!!`
isTestEnvironment_raw == testEnvironmentExpr

\* isTestEnvironment()
isTestEnvironment == JSBool(ToBoolean(testEnvironmentExpr))

\* values of process.env.npm_lifecycle_event
LifecycleInputs ==
  {UnsetText, <<>>, <<"t", "e", "s", "t">>, <<"t", "e", "s", "t", ":", "c",
    "o", "v">>, <<"p", "r", "e", "t", "e", "s", "t">>, <<"T", "e", "s", "t">>,
   <<"t", "e", "s">>, <<"s", "t", "a", "r", "t">>}

\* a caller asks isTestEnvironment()
IsTestEnvironment ==
  /\ Idle
  /\ last' = [op |-> "isTestEnvironment", result |-> isTestEnvironment]
  /\ UNCHANGED <<nodeEnv, procEnv, registryVars, globalVars, consoleWarn>>

InitTest ==
  /\ nodeEnv \in NodeEnvs
  /\ procEnv \in [JEST_WORKER_ID : {UNSET, "", "1"},
                  npm_lifecycle_event : LifecycleInputs]
  /\ RegistryUntouched
  /\ last = NoCall
  /\ consoleWarn = <<>>

NextTest == IsTestEnvironment

SpecTest == InitTest /\ [][NextTest]_vars

\* key.toUpperCase(), character by character
LowerCase == <<"a", "b", "c", "d", "e", "f", "g", "h", "i", "j", "k", "l",
  "m", "n", "o", "p", "q", "r", "s", "t", "u", "v", "w", "x", "y", "z">>
UpperCase == <<"A", "B", "C", "D", "E", "F", "G", "H", "I", "J", "K", "L",
  "M", "N", "O", "P", "Q", "R", "S", "T", "U", "V", "W", "X", "Y", "Z">>
toUpperCaseChar(c) ==
  IF \E i \in 1..Len(LowerCase) : LowerCase[i] = c
    THEN UpperCase[CHOOSE i \in 1..Len(LowerCase) : LowerCase[i] = c]
    ELSE c
toUpperCase(text) == [i \in 1..Len(text) |-> toUpperCaseChar(text[i])]

\* sensitiveKeys
sensitiveKeys ==
  <<<<"C", "O", "G", "N", "I", "T", "O", "_", "U", "S", "E", "R", "_", "P",
    "O", "O", "L", "_", "C", "L", "I", "E", "N", "T", "_", "S", "E", "C",
    "R", "E", "T">>,
    <<"A", "W", "S", "_", "A", "C", "C", "E", "S", "S", "_", "K", "E", "Y", "_", "I", "D">>,
    <<"A", "W", "S", "_", "S", "E", "C", "R", "E", "T", "_", "A", "C", "C",
      "E", "S", "S", "_", "K", "E", "Y">>,
    <<"D", "A", "T", "A", "B", "A", "S", "E", "_", "P", "A", "S", "S", "W", "O", "R", "D">>,
    <<"A", "P", "I", "_", "K", "E", "Y">>,
    <<"S", "E", "C", "R", "E", "T">>>>

MASKED == "***MASKED***"

\* maskSensitiveEnvVars comparing the key as written
maskSensitiveEnvVars_caseSensitive(env) ==
  [masked |->
     [key \in DOMAIN env |->
        IF \E i \in 1..Len(sensitiveKeys) : includes(key, sensitiveKeys[i])
          THEN MASKED ELSE env[key]],
   env |-> env]

\* maskSensitiveEnvVars writing into the object it was given
maskSensitiveEnvVars_inPlace(env) ==
  LET masked ==
        [key \in DOMAIN env |->
           IF \E i \in 1..Len(sensitiveKeys) :
                includes(toUpperCase(key), sensitiveKeys[i])
             THEN MASKED ELSE env[key]]
  IN [masked |-> masked, env |-> masked]

\* maskSensitiveEnvVars(env): the copy it returns and the object it was
\* given, as the call leaves it
maskSensitiveEnvVars(env) ==
  [masked |->
     [key \in DOMAIN env |->
        IF \E i \in 1..Len(sensitiveKeys) :
             includes(toUpperCase(key), sensitiveKeys[i])
          THEN MASKED ELSE env[key]],
   env |-> env]

\* the objects a caller passes: any of these keys, each with one of two values
MaskKeyInputs ==
  {<<"A", "P", "I", "_", "K", "E", "Y">>, <<"a", "p", "i", "_", "k", "e",
    "y">>, <<"N", "O", "R", "M", "A", "L">>, <<"M", "y", "_", "S", "e", "c",
    "r", "e", "t", "_", "2">>, <<"P", "A", "S", "S", "W", "O", "R", "D">>,
   <<"A", "W", "S", "_", "A", "C", "C", "E", "S", "S", "_", "K", "E", "Y">>}
MaskEnvInputs ==
  UNION {[keys -> {"x", "y"}] : keys \in SUBSET MaskKeyInputs}

\* a caller masks an object before logging it
MaskSensitiveEnvVars ==
  /\ Idle
  /\ \E env \in MaskEnvInputs :
       LET r == maskSensitiveEnvVars(env)
       IN last' = [op |-> "maskSensitiveEnvVars", env |-> env,
                   envAfter |-> r.env, result |-> r.masked]
  /\ UNCHANGED <<nodeEnv, procEnv, registryVars, globalVars, consoleWarn>>

InitMask ==
  /\ nodeEnv = "test"
  /\ procEnv = [n \in VarNames |-> UNSET]
  /\ RegistryUntouched
  /\ last = NoCall
  /\ consoleWarn = <<>>

NextMask == MaskSensitiveEnvVars

SpecMask == InitMask /\ [][NextMask]_vars

\* ------------------------------------------------------- utils/health.js
\* new Date().toISOString()
NOW == "now"

\* getEnvironmentInfo()
getEnvironmentInfo ==
  [nodeEnv |-> IF nodeEnv = "" THEN "unknown" ELSE nodeEnv,
   awsRegion |-> IF Falsy(procEnv["AWS_REGION"]) THEN "us-east-1"
                 ELSE procEnv["AWS_REGION"],
   isTest |-> nodeEnv = "test",
   isProduction |-> nodeEnv = "production",
   isDevelopment |-> nodeEnv = "development" \/ nodeEnv = "dev",
   serviceVersion |-> IF Falsy(procEnv["SERVICE_VERSION"]) THEN "1.0.0"
                      ELSE procEnv["SERVICE_VERSION"],
   timestamp |-> NOW]

\* A client handle given to the health check: null, an object without
\* getClientHealth ("plain"), an object whose getClientHealth resolves to a
\* record with the given status ("reports"), or one whose getClientHealth
\* throws or rejects ("throws").
NullHandle == [kind |-> "null", status |-> ""]
PlainHandle == [kind |-> "plain", status |-> ""]
ReportingHandle(st) == [kind |-> "reports", status |-> st]
ThrowingHandle == [kind |-> "throws", status |-> ""]

\* the per-client step of performHealthCheck: the entry put into checks and
\* the overall status after it
\* the loop body that sets degraded for a missing handle whatever the
\* status was
checkClient_alwaysDegrade(client, overallStatus) ==
  IF client.kind = "throws"
    THEN [check |-> [status |-> "error", error |-> "boom"],
          overallStatus |-> "unhealthy"]
  ELSE IF client.kind = "reports"
    THEN [check |-> [status |-> client.status],
          overallStatus |-> overallStatus]
  ELSE IF client.kind = "plain"
    THEN [check |-> [status |-> "ok", initialized |-> TRUE],
          overallStatus |-> overallStatus]
  ELSE [check |-> [status |-> "warning", initialized |-> FALSE,
                   message |-> "Client not initialized"],
        overallStatus |-> "degraded"]

checkClient(client, overallStatus) ==
  IF client.kind = "throws"
    THEN [check |-> [status |-> "error", error |-> "boom"],
          overallStatus |-> "unhealthy"]
  ELSE IF client.kind = "reports"
    THEN [check |-> [status |-> client.status],
          overallStatus |-> overallStatus]
  ELSE IF client.kind = "plain"
    THEN [check |-> [status |-> "ok", initialized |-> TRUE],
          overallStatus |-> overallStatus]
  ELSE [check |-> [status |-> "warning", initialized |-> FALSE,
                   message |-> "Client not initialized"],
        overallStatus |-> IF overallStatus = "healthy" THEN "degraded"
                          ELSE overallStatus]

\* the loop with the try/catch around it: a throwing handle ends the loop
RECURSIVE checkClients_abortOnThrow(_, _)
checkClients_abortOnThrow(entries, acc) ==
  IF entries = <<>> THEN acc
  ELSE LET e == Head(entries)
       IN CHOOSE out \in
            {IF e.client.kind = "throws"
               THEN [a EXCEPT !.checks = (e.name :> r.check) @@ a.checks,
                              !.overallStatus = r.overallStatus,
                              !.trace = Append(a.trace, r.overallStatus)]
               ELSE checkClients_abortOnThrow(Tail(entries),
                      [a EXCEPT !.checks = (e.name :> r.check) @@ a.checks,
                                !.overallStatus = r.overallStatus,
                                !.trace = Append(a.trace, r.overallStatus)]) :
               <<a, r>> \in {<<x, checkClient(e.client, x.overallStatus)>> :
                               x \in {acc}}} : TRUE

\* for (const [clientName, client] of Object.entries(clients)) { ... }
\* acc: the checks object, the overall status and the statuses it went through
RECURSIVE checkClients(_, _)
checkClients(entries, acc) ==
  IF entries = <<>> THEN acc
  ELSE LET e == Head(entries)
       IN CHOOSE out \in
            {checkClients(Tail(entries),
               [a EXCEPT !.checks = (e.name :> r.check) @@ a.checks,
                         !.overallStatus = r.overallStatus,
                         !.trace = Append(a.trace, r.overallStatus)]) :
               <<a, r>> \in {<<x, checkClient(e.client, x.overallStatus)>> :
                               x \in {acc}}} : TRUE

\* the environment step of performHealthCheck
checkEnvironmentStep(serviceName, acc) ==
  LET step(envValidation) ==
        IF envValidation.threw
          THEN [check |-> [status |-> "error",
                           error |-> envValidation.error.message],
                overallStatus |-> "unhealthy"]
          ELSE [check |-> [status |-> IF envValidation.value.valid
                                        THEN "ok" ELSE "warning",
                           missing |-> envValidation.value.missing,
                           warnings |-> envValidation.value.warnings],
                overallStatus |-> IF envValidation.value.valid
                                    THEN acc.overallStatus
                                    ELSE "degraded"]
  IN CHOOSE out \in
       {[checks |-> ("environment" :> r.check) @@ acc.checks,
         overallStatus |-> r.overallStatus,
         trace |-> Append(acc.trace, r.overallStatus),
         warned |-> v.warned] :
          <<v, r>> \in {<<x, step(x)>> :
            x \in {validateServiceEnvironment(serviceName,
                     [serviceName |-> "undefined",
                      skipInProduction |-> "false",
                      throwOnMissing |-> "undefined"])}}} : TRUE

\* The clients argument: an object with entries in insertion order, null, or
\* an object whose enumeration throws (a throwing getter or proxy).
ClientsObject(entries) == [form |-> "object", entries |-> entries]
ClientsNull == [form |-> "null", entries |-> <<>>]
ClientsThrowing == [form |-> "throws", entries |-> <<>>]

EmptyChecks == [n \in {} |-> [status |-> "ok"]]

\* performHealthCheck(serviceName, clients, options)
performHealthCheck(serviceName, clients, options) ==
  LET checkEnvironment == Default(options.checkEnvironment, "true")
      checkClientsOpt == Default(options.checkClients, "true")
      includeMetrics == Default(options.includeMetrics, "false")
      a0 == [checks |-> EmptyChecks, overallStatus |-> "healthy",
             trace |-> <<"healthy">>, warned |-> <<>>]
      envStep == IF checkEnvironment = "true"
                   THEN checkEnvironmentStep(serviceName, a0) ELSE a0
      clientStep(a1) ==
        IF checkClientsOpt = "true" /\ clients.form = "object"
          THEN checkClients(clients.entries, a1) ELSE a1
      checks(a2) == IF includeMetrics = "true"
                      THEN ("performance" :>
                              [uptime |-> "uptime", memoryUsage |-> "memory",
                               cpuUsage |-> "cpu"]) @@ a2.checks
                      ELSE a2.checks
      return(a2, info) ==
        IF checkClientsOpt = "true" /\ clients.form = "throws"
          THEN [threw |-> TRUE, warned |-> a2.warned,
                error |-> [name |-> "Error", message |-> "boom"]]
          ELSE [threw |-> FALSE, warned |-> a2.warned, trace |-> a2.trace,
                value |-> [status |-> a2.overallStatus,
                           service |-> serviceName,
                           nodeEnv |-> info.nodeEnv,
                           awsRegion |-> info.awsRegion,
                           isTest |-> info.isTest,
                           isProduction |-> info.isProduction,
                           isDevelopment |-> info.isDevelopment,
                           serviceVersion |-> info.serviceVersion,
                           timestamp |-> info.timestamp,
                           checks |-> checks(a2)]]
  IN CHOOSE out \in
       {return(a2, info) :
          a2 \in {clientStep(a1) : a1 \in {envStep}},
          info \in {getEnvironmentInfo}} : TRUE

\* JSON.stringify(x): the text, kept as the value it parses back to
JSONstringify(x) == [json |-> x]

\* x.field || fallback, for a field the object may not have
FieldOr(x, field, fallback) ==
  IF field \in DOMAIN x /\ x[field] # "" THEN x[field] ELSE fallback

\* createLambdaHealthResponse(healthData, statusCode)
createLambdaHealthResponse(healthData, statusCode) ==
  [statusCode |-> IF statusCode = UNDEF THEN 200 ELSE statusCode,
   headers |->
     ("Content-Type" :> "application/json")
     @@ ("Cache-Control" :> "no-cache, no-store, must-revalidate")
     @@ ("Pragma" :> "no-cache")
     @@ ("Expires" :> "0")
     @@ ("Access-Control-Allow-Origin" :> "*")
     @@ ("Access-Control-Allow-Headers" :>
           "Content-Type,X-Amz-Date,Authorization,X-Api-Key,X-Amz-Security-Token")
     @@ ("Access-Control-Allow-Methods" :> "GET,OPTIONS"),
   body |-> JSONstringify(
     [data |-> healthData,
      meta |-> [service |-> FieldOr(healthData, "service", "unknown-service"),
                version |-> FieldOr(healthData, "version", "1.0.0"),
                apiVersion |-> "v1",
                timestamp |-> NOW,
                environment |-> IF nodeEnv = "" THEN "unknown"
                                ELSE nodeEnv]])]

\* the value null returned by the middleware
NullResult == [t |-> "null"]

\* the status code mapping answering 503 for a degraded service
statusCodeFor_degraded503(status) ==
  IF status = "healthy" THEN 200 ELSE 503

\* statusCode chosen by the middleware for an overall status
statusCodeFor(status) ==
  IF status = "healthy" THEN 200
  ELSE IF status = "degraded" THEN 200 ELSE 503

\* the handler without its try/catch
healthCheckMiddleware_noCatch(serviceName, clients, event) ==
  LET respond(r) ==
        IF r.threw
          THEN [threw |-> TRUE, ran |-> TRUE, warned |-> r.warned,
                value |-> r.error]
          ELSE [threw |-> FALSE, ran |-> TRUE, warned |-> r.warned,
                value |-> createLambdaHealthResponse(r.value,
                            statusCodeFor(r.value.status))]
  IN
  IF event.path = UnsetText \/ event.path = <<>>
     \/ ~includes(event.path, <<"/", "h", "e", "a", "l", "t", "h">>)
    THEN [threw |-> FALSE, ran |-> FALSE, warned |-> <<>>,
          value |-> NullResult]
  ELSE CHOOSE out \in {respond(r) :
         r \in {performHealthCheck(serviceName, clients,
                  [checkEnvironment |-> "true", checkClients |-> "true",
                   includeMetrics |-> IF event.metrics = "true" THEN "true"
                                      ELSE "false"])}} : TRUE

\* the handler answering only the path "/health" itself
healthCheckMiddleware_exactPath(serviceName, clients, event) ==
  LET respond(r) ==
        IF r.threw
          THEN [threw |-> FALSE, ran |-> TRUE, warned |-> r.warned,
                value |-> createLambdaHealthResponse(
                  [status |-> "unhealthy", service |-> serviceName,
                   error |-> r.error.message, timestamp |-> NOW], 503)]
          ELSE [threw |-> FALSE, ran |-> TRUE, warned |-> r.warned,
                value |-> createLambdaHealthResponse(r.value,
                            statusCodeFor(r.value.status))]
  IN
  IF event.path # <<"/", "h", "e", "a", "l", "t", "h">>
    THEN [threw |-> FALSE, ran |-> FALSE, warned |-> <<>>,
          value |-> NullResult]
  ELSE CHOOSE out \in {respond(r) :
         r \in {performHealthCheck(serviceName, clients,
                  [checkEnvironment |-> "true", checkClients |-> "true",
                   includeMetrics |-> IF event.metrics = "true" THEN "true"
                                      ELSE "false"])}} : TRUE

\* the handler returned by healthCheckMiddleware(serviceName, clients),
\* applied to an event; ran: performHealthCheck was called
healthCheckMiddleware(serviceName, clients, event) ==
  LET respond(r) ==
        IF r.threw
          THEN [threw |-> FALSE, ran |-> TRUE, warned |-> r.warned,
                value |-> createLambdaHealthResponse(
                  [status |-> "unhealthy", service |-> serviceName,
                   error |-> r.error.message, timestamp |-> NOW], 503)]
          ELSE [threw |-> FALSE, ran |-> TRUE, warned |-> r.warned,
                value |-> createLambdaHealthResponse(r.value,
                            statusCodeFor(r.value.status))]
  IN
  IF event.path = UnsetText \/ event.path = <<>>
     \/ ~includes(event.path, <<"/", "h", "e", "a", "l", "t", "h">>)
    THEN [threw |-> FALSE, ran |-> FALSE, warned |-> <<>>,
          value |-> NullResult]
  ELSE CHOOSE out \in {respond(r) :
         r \in {performHealthCheck(serviceName, clients,
                  [checkEnvironment |-> "true", checkClients |-> "true",
                   includeMetrics |-> IF event.metrics = "true" THEN "true"
                                      ELSE "false"])}} : TRUE

\* -------- inputs of the health checks
ClientNames == {"cognito", "environment", "performance"}
HandleInputs ==
  {NullHandle, PlainHandle, ReportingHandle("ok"), ReportingHandle("error"),
   ThrowingHandle}
\* objects with at most two entries, in either insertion order
ClientEntries ==
  {<<>>}
  \cup {<<[name |-> n, client |-> h]>> : n \in ClientNames, h \in HandleInputs}
  \cup {<<[name |-> n1, client |-> h1], [name |-> n2, client |-> h2]>> :
          n1 \in ClientNames, n2 \in ClientNames, h1 \in HandleInputs,
          h2 \in HandleInputs}
ClientsInputs ==
  {ClientsObject(es) : es \in {x \in ClientEntries :
                                 Len(x) < 2 \/ x[1].name # x[2].name}}
  \cup {ClientsNull, ClientsThrowing}

HealthServiceInputs == {"auth-service", "billing"}
HealthOptionsInputs ==
  [checkEnvironment : {"undefined", "false"},
   checkClients : {"undefined", "false"},
   includeMetrics : {"undefined", "true"}]
EventInputs ==
  [path : {UnsetText, <<>>,
           <<"/", "h", "e", "a", "l", "t", "h">>,
           <<"/", "a", "p", "i", "/", "h", "e", "a", "l", "t", "h", "z">>,
           <<"/", "u", "s", "e", "r", "s">>,
           <<"/", "h", "e", "a", "l", "t">>},
   metrics : {"undefined", "true"}]

\* a service calls performHealthCheck directly
PerformHealthCheck ==
  /\ Idle
  /\ \E serviceName \in HealthServiceInputs, clients \in ClientsInputs,
        options \in HealthOptionsInputs :
       \E r \in {performHealthCheck(serviceName, clients, options)} :
          /\ last' = [op |-> "performHealthCheck",
                      serviceName |-> serviceName, clients |-> clients,
                      options |-> options, threw |-> r.threw,
                      trace |-> IF r.threw THEN <<>> ELSE r.trace,
                      result |-> IF r.threw THEN r.error ELSE r.value]
          /\ consoleWarn' = r.warned
  /\ UNCHANGED <<nodeEnv, procEnv, registryVars, globalVars>>

\* a request reaches the handler made by healthCheckMiddleware
HealthCheckMiddleware ==
  /\ Idle
  /\ \E serviceName \in HealthServiceInputs, clients \in ClientsInputs,
        event \in EventInputs :
       \E r \in {healthCheckMiddleware(serviceName, clients, event)} :
          /\ last' = [op |-> "healthCheckMiddleware",
                      serviceName |-> serviceName, clients |-> clients,
                      event |-> event, threw |-> r.threw, ran |-> r.ran,
                      result |-> r.value]
          /\ consoleWarn' = r.warned
  /\ UNCHANGED <<nodeEnv, procEnv, registryVars, globalVars>>

\* a handler calls createLambdaHealthResponse itself on the result of a
\* health check, with or without a status code
StatusCodeInputs == {UNDEF, 200, 503}
EnvelopeClientsInputs ==
  {c \in ClientsInputs : c.form = "object" /\ Len(c.entries) <= 1}
CreateLambdaHealthResponse ==
  /\ Idle
  /\ \E serviceName \in HealthServiceInputs, clients \in EnvelopeClientsInputs,
        options \in HealthOptionsInputs, statusCode \in StatusCodeInputs :
       \E r \in {performHealthCheck(serviceName, clients, options)} :
          /\ last' = [op |-> "createLambdaHealthResponse",
                      healthData |-> r.value, statusCode |-> statusCode,
                      result |-> createLambdaHealthResponse(r.value,
                                                            statusCode)]
          /\ consoleWarn' = r.warned
  /\ UNCHANGED <<nodeEnv, procEnv, registryVars, globalVars>>

\* environments of the health checks: every catalog variable set, or one of
\* the auth-service variables absent or empty; SERVICE_VERSION set or not
ServiceVersionInputs == {UNSET, "2.3.4"}
HealthEnvInputs ==
  {[n \in CatalogKeys \cup {"AWS_REGION", "SERVICE_VERSION"} |->
      IF n = k THEN v
      ELSE IF n \in CatalogKeys THEN "v"
      ELSE IF n = "SERVICE_VERSION" THEN sv ELSE UNSET] :
     k \in {"none"} \cup {"DYNAMODB_TABLE_NAME", "COGNITO_USER_POOL_ID",
                          "COGNITO_USER_POOL_CLIENT_ID"}, v \in {UNSET, ""},
     sv \in ServiceVersionInputs}

InitHealth ==
  /\ nodeEnv \in NodeEnvs
  /\ procEnv \in HealthEnvInputs
  /\ RegistryUntouched
  /\ last = NoCall
  /\ consoleWarn = <<>>

NextHealth ==
  \/ PerformHealthCheck
  \/ HealthCheckMiddleware
  \/ CreateLambdaHealthResponse

SpecHealth == InitHealth /\ [][NextHealth]_vars

\* ------------------------- the registry in a process with test signals
\* A process whose environment may carry NODE_ENV, JEST_WORKER_ID and
\* npm_lifecycle_event, with the substitutes of test/setup.js registered
\* before the module is required; tests may change NODE_ENV afterwards.
TestSignalInputs ==
  [JEST_WORKER_ID : {UNSET, "1"},
   npm_lifecycle_event : {UnsetText, <<"t", "e", "s", "t">>,
                          <<"s", "t", "a", "r", "t">>}]

InitMode ==
  /\ nodeEnv \in NodeEnvs
  /\ procEnv \in TestSignalInputs
  /\ loaded = FALSE
  /\ cognitoClient = NULL
  /\ dynamoDbClient = NULL
  /\ dynamoDbDocumentClient = NULL
  /\ mockCognitoClient \in MockObjs \cup {UNDEF}
  /\ mockDynamoDbDocumentClient \in MockObjs \cup {UNDEF}
  /\ nextId = 1
  /\ last = NoCall
  /\ returned = [k \in Kinds |-> {}]
  /\ preReset = [k \in Kinds |-> {}]
  /\ consoleWarn = <<>>

NextMode ==
  \/ LoadModule
  \/ GetCognitoClient
  \/ GetDynamoDbClient
  \/ ResetClients
  \/ SetNodeEnv

SpecMode == InitMode /\ [][NextMode]_vars

\* ------------------------------------------------ ClientRegistry claims
Slot(k) == IF k = "cognito" THEN cognitoClient ELSE dynamoDbDocumentClient
Mock(k) == IF k = "cognito" THEN mockCognitoClient
           ELSE mockDynamoDbDocumentClient
Health(k) == IF k = "cognito" THEN getClientHealth.cognito
             ELSE getClientHealth.dynamodb
GotClient == last.op = "getClient" /\ ~last.threw
SubstituteHonored(k) == nodeEnv = "test" /\ Truthy(Mock(k))

\* C1: for each kind, all getClient(kind) calls that returned normally since
\* the last resetClients returned one and the same handle.
C1_SameHandle == \A k \in Kinds : Cardinality(returned[k]) <= 1

\* a second getClient(cognito) without a reset in between has just returned
\* a handle the SDK constructor built
C1_Witness ==
  /\ GotClient /\ last.kind = "cognito" /\ last.repeat
  /\ last.value \in Built
  /\ returned["cognito"] = {last.value}

\* C2 (as stated): the first getClient(kind) that returns after a
\* resetClients returns a handle that no getClient(kind) returned before
\* that reset.
C2_Original ==
  (GotClient /\ ~last.repeat) => last.value \notin preReset[last.kind]

\* C2 (amended): the first getClient(kind) that returns after a resetClients
\* returns a handle no getClient(kind) returned before that reset, unless
\* NODE_ENV is "test" and a substitute is registered for the kind; then it
\* returns the registered substitute.
C2_NewHandleAfterReset ==
  (GotClient /\ ~last.repeat) =>
     IF SubstituteHonored(last.kind)
       THEN last.value = Mock(last.kind)
       ELSE last.value \notin preReset[last.kind]

\* after a reset, getClient(cognito) has constructed a second real handle
C2_Witness ==
  /\ GotClient /\ ~last.repeat /\ last.kind = "cognito"
  /\ ~SubstituteHonored("cognito")
  /\ preReset["cognito"] \cap Built # {}
  /\ last.value \in Built

\* C3 (as stated): whenever NODE_ENV is "test" and a substitute is
\* registered for a kind, getClient(kind) returns that substitute.
C3_Original ==
  (GotClient /\ SubstituteHonored(last.kind)) => last.value = Mock(last.kind)

\* C3 (amended): whenever NODE_ENV is "test", a substitute is registered for
\* a kind and no handle is memoized for that kind, getClient(kind) returns
\* that substitute.
C3_SubstituteWhenEmpty ==
  (GotClient /\ SubstituteHonored(last.kind) /\ ~last.held) =>
     last.value = Mock(last.kind)

\* after a real handle was built and then reset, getClient(cognito) found
\* the slot empty in test mode and returned the registered substitute
C3_Witness ==
  /\ GotClient /\ last.kind = "cognito" /\ ~last.held
  /\ SubstituteHonored("cognito")
  /\ preReset["cognito"] \cap Built # {}
  /\ last.value = 101

\* C4: getClientHealth reports initialized for a kind exactly when a
\* getClient(kind) (or the eager initialization) returned normally since the
\* last resetClients; right after resetClients both kinds are uninitialized.
C4_InitializedIffReturned ==
  /\ \A k \in Kinds : Health(k).initialized <=> returned[k] # {}
  /\ last.op = "resetClients" =>
        \A k \in Kinds : ~Health(k).initialized

\* resetClients has just cleared two initialized kinds
C4_Witness ==
  /\ last.op = "resetClients"
  /\ \A k \in Kinds : preReset[k] # {} /\ ~Health(k).initialized

\* C5: getClientHealth reports isMock for a kind only when a handle is held
\* for the kind and that handle is the currently registered substitute.
C5_IsMockOnlyForHeldSubstitute ==
  loaded =>
    \A k \in Kinds : Health(k).isMock => (Truthy(Slot(k)) /\ Slot(k) = Mock(k))

\* ------------------------------------------- EnvironmentValidator claims
Validated == last.op = "validateEnvironment"
Skipped ==
  /\ Default(last.options.skipInProduction, "true") = "true"
  /\ nodeEnv = "production"
Elems(xs) == {xs[i] : i \in 1..Len(xs)}
Count(xs, x) == Cardinality({i \in 1..Len(xs) : xs[i] = x})
AbsentOrEmpty(k) == procEnv[k] \in {UNSET, ""}

\* a is obtained from b by deleting entries, the rest keeping its order
RECURSIVE IsSubseq(_, _)
IsSubseq(a, b) ==
  IF a = <<>> THEN TRUE
  ELSE IF b = <<>> THEN FALSE
  ELSE IF Head(a) = Head(b) THEN IsSubseq(Tail(a), Tail(b))
  ELSE IsSubseq(a, Tail(b))

\* C6: every result validateEnvironment returns has valid = true exactly
\* when its missing list is empty.
C6_ValidIffNoneMissing ==
  (Validated /\ ~last.threw) =>
     (last.result.valid <=> last.result.missing = <<>>)

\* an unskipped validation returned an invalid result with a missing key
C6_Witness ==
  /\ Validated /\ ~last.threw /\ ~Skipped
  /\ ~last.result.valid
  /\ last.result.missing # <<>>

\* C7: when validation is not skipped, the returned missing list holds
\* exactly the required keys whose variable is absent or empty, in the order
\* of requiredVars; a key with a non-empty value is never in it.
C7_MissingIsAbsentOrEmpty ==
  (Validated /\ ~last.threw /\ ~Skipped) =>
     /\ Elems(last.result.missing) =
          {k \in Elems(last.requiredVars) : AbsentOrEmpty(k)}
     /\ IsSubseq(last.result.missing, last.requiredVars)
     /\ \A k \in Elems(last.result.missing) : procEnv[k] # "v"

\* B is required before A, A is empty, B is absent: both are reported, B first
C7_Witness ==
  /\ Validated /\ ~last.threw /\ ~Skipped
  /\ last.requiredVars = <<"B", "A">>
  /\ procEnv["A"] = "" /\ procEnv["B"] = UNSET
  /\ last.result.missing = <<"B", "A">>

C9_SkippedInProduction ==
  (Validated /\ Skipped) =>
     /\ ~last.threw
     /\ last.result = [valid |-> TRUE, missing |-> <<>>, warnings |-> <<>>]
     /\ last.inspected = {}
     /\ consoleWarn = <<>>

\* skipInProduction left out, throwOnMissing true, a required key absent
C9_Witness ==
  /\ Validated /\ Skipped
  /\ last.options.skipInProduction = "undefined"
  /\ last.options.throwOnMissing = "true"
  /\ last.requiredVars = <<"A">> /\ procEnv["A"] = UNSET
  /\ ~last.threw

\* the text "<serviceName>: Missing environment variables: <keys joined by ', '>"
\* for the keys of requiredVars that are absent or empty
RECURSIVE CommaList(_)
CommaList(xs) ==
  IF Len(xs) <= 1 THEN xs
  ELSE CommaList(Front(xs)) \o <<", ", xs[Len(xs)]>>
ExpectedMessage ==
  <<Default(last.options.serviceName, "unknown-service"),
    ": Missing environment variables: ">>
  \o CommaList(SelectSeq(last.requiredVars, AbsentOrEmpty))

\* C10: when validation is not skipped, throwOnMissing is true and a
\* required key is missing, validateEnvironment throws an error with the
\* message "<serviceName>: Missing environment variables: <missing keys
\* joined by ', '>"; otherwise it returns a result.
C10_ThrowOnMissing ==
  Validated =>
     IF /\ ~Skipped
        /\ last.options.throwOnMissing = "true"
        /\ \E k \in Elems(last.requiredVars) : AbsentOrEmpty(k)
       THEN last.threw /\ last.result.message = ExpectedMessage
       ELSE ~last.threw

\* two keys missing, throwOnMissing true, default service name: thrown
C10_Witness ==
  /\ Validated /\ last.threw
  /\ last.options.serviceName = "undefined"
  /\ last.requiredVars = <<"A", "B">>
  /\ last.result.message =
       <<"unknown-service", ": Missing environment variables: ",
         "A", ", ", "B">>

\* ------------------------------------- service catalog and getEnvVar claims
ValidatedService == last.op = "validateServiceEnvironment"

GotEnvVar == last.op = "getEnvVar"
EnvValueSet == ~AbsentOrEmpty(last.varName)
DefaultResolves == last.defaultValue \notin {"undefined", JSNULL, ""}
ExpectedEnvVar ==
  IF EnvValueSet THEN procEnv[last.varName]
  ELSE IF last.defaultValue = "undefined" THEN JSNULL
  ELSE last.defaultValue

\* C17 (as stated): getEnvVar throws exactly when required is true and
\* neither an environment value nor a default value resolves; otherwise it
\* returns the environment value when one is set, else defaultValue.
C17_Original ==
  GotEnvVar =>
     /\ last.threw <=>
          (last.required = "true" /\ ~EnvValueSet /\ ~DefaultResolves)
     /\ ~last.threw => last.result = ExpectedEnvVar

\* C17 (amended): getEnvVar throws exactly when required is true and the
\* environment value is absent or empty, whatever defaultValue is; otherwise
\* it returns the environment value when one is set, else defaultValue.
C17_ThrowsWhenRequiredAndUnset ==
  GotEnvVar =>
     /\ last.threw <=> (last.required = "true" /\ ~EnvValueSet)
     /\ ~last.threw => last.result = ExpectedEnvVar

\* required with a usable default and an empty variable: still thrown
C17_Witness ==
  /\ GotEnvVar /\ last.threw
  /\ last.required = "true" /\ last.defaultValue = "d"
  /\ procEnv[last.varName] = ""

\* ------------------------------------ isTestEnvironment and masking claims
\* the text holds the characters t, e, s, t next to each other
HasTest(text) ==
  \E i \in 1..Len(text) :
     /\ i + 3 <= Len(text)
     /\ text[i] = "t" /\ text[i + 1] = "e"
     /\ text[i + 2] = "s" /\ text[i + 3] = "t"

AnyTestSignal ==
  \/ nodeEnv = "test"
  \/ procEnv.JEST_WORKER_ID \notin {UNSET, ""}
  \/ /\ procEnv.npm_lifecycle_event # UnsetText
     /\ HasTest(procEnv.npm_lifecycle_event)

\* C19: isTestEnvironment returns the boolean true when NODE_ENV is "test",
\* JEST_WORKER_ID is set or npm_lifecycle_event contains "test", and the
\* boolean false otherwise.
C19_IsTestEnvironment ==
  last.op = "isTestEnvironment" =>
     last.result = [t |-> "boolean",
                    v |-> IF AnyTestSignal THEN "true" ELSE "false"]

\* detected through the lifecycle event alone
C19_Witness ==
  /\ last.op = "isTestEnvironment"
  /\ nodeEnv = "production" /\ procEnv.JEST_WORKER_ID = UNSET
  /\ HasTest(procEnv.npm_lifecycle_event)
  /\ last.result.v = "true"

\* no signal at all: the answer is the boolean false
C19_WitnessFalse ==
  /\ last.op = "isTestEnvironment"
  /\ ~AnyTestSignal /\ procEnv.npm_lifecycle_event = UnsetText
  /\ last.result = [t |-> "boolean", v |-> "false"]

\* the key, compared without regard to case, holds a denylist entry
Denylisted(key) ==
  \E n \in 1..Len(sensitiveKeys) :
     \E off \in 0..(Len(key) - Len(sensitiveKeys[n])) :
        \A j \in 1..Len(sensitiveKeys[n]) :
           \/ key[off + j] = sensitiveKeys[n][j]
           \/ \E a \in 1..Len(LowerCase) :
                /\ key[off + j] = LowerCase[a]
                /\ sensitiveKeys[n][j] = UpperCase[a]

\* C18: maskSensitiveEnvVars returns a mapping with the keys of its input in
\* which a key holding a denylist entry (whatever its case) has the value
\* "***MASKED***" and every other key its input value; the input is unchanged.
C18_MaskSecrets ==
  last.op = "maskSensitiveEnvVars" =>
     /\ DOMAIN last.result = DOMAIN last.env
     /\ \A key \in DOMAIN last.env :
          last.result[key] =
            IF Denylisted(key) THEN "***MASKED***" ELSE last.env[key]
     /\ last.envAfter = last.env

\* a lower-case secret key is masked next to a key that is kept
C18_Witness ==
  /\ last.op = "maskSensitiveEnvVars"
  /\ DOMAIN last.env = {<<"a", "p", "i", "_", "k", "e", "y">>,
                        <<"N", "O", "R", "M", "A", "L">>}
  /\ last.result[<<"a", "p", "i", "_", "k", "e", "y">>] = "***MASKED***"
  /\ last.result[<<"N", "O", "R", "M", "A", "L">>] = "y"
  /\ last.env[<<"a", "p", "i", "_", "k", "e", "y">>] = "x"

\* ------------------------------------------------ HealthAggregator claims
CheckedHealth == last.op = "performHealthCheck" /\ ~last.threw
Handled == last.op = "healthCheckMiddleware"
Enabled(opt) == Default(opt, "true") = "true"
StatusOf(check) == IF "status" \in DOMAIN check THEN check.status ELSE "none"
SubStatuses(checks) == {StatusOf(checks[n]) : n \in DOMAIN checks}
SuppliedEntries == {last.clients.entries[i] : i \in 1..Len(last.clients.entries)}

\* C12: in every performHealthCheck result, a sub-check with status error
\* makes the overall status unhealthy, and sub-checks that are only ok and
\* warning, with at least one warning, make it degraded.
C12_SeverityLattice ==
  CheckedHealth =>
     LET st == SubStatuses(last.result.checks) \ {"none"}
     IN /\ "error" \in st => last.result.status = "unhealthy"
        /\ ("warning" \in st /\ st \subseteq {"ok", "warning"}) =>
              last.result.status = "degraded"

\* the path holds the characters of "/health" next to each other
ContainsHealth(path) ==
  /\ path # UnsetText
  /\ \E i \in 1..Len(path) :
        /\ i + 6 <= Len(path)
        /\ path[i] = "/" /\ path[i + 1] = "h" /\ path[i + 2] = "e"
        /\ path[i + 3] = "a" /\ path[i + 4] = "l" /\ path[i + 5] = "t"
        /\ path[i + 6] = "h"

WellFormedEnvelope(e) ==
  /\ DOMAIN e = {"statusCode", "headers", "body"}
  /\ e.statusCode \in {200, 503}
  /\ e.headers["Content-Type"] = "application/json"
  /\ DOMAIN e.body.json = {"data", "meta"}
  /\ DOMAIN e.body.json.meta =
       {"service", "version", "apiVersion", "timestamp", "environment"}
  /\ e.body.json.meta.apiVersion = "v1"

\* a client check, or the enumeration of the clients, fails
CheckFails ==
  \/ last.clients.form = "throws"
  \/ \E e \in SuppliedEntries : e.client.kind = "throws"

\* C13: the handler made by healthCheckMiddleware never throws: it returns
\* null or a well-formed envelope, and when a check fails the envelope has
\* status code 503 and data.status "unhealthy".
C13_MiddlewareNeverThrows ==
  Handled =>
     /\ ~last.threw
     /\ last.result = NullResult \/ WellFormedEnvelope(last.result)
     /\ (ContainsHealth(last.event.path) /\ CheckFails) =>
           /\ last.result.statusCode = 503
           /\ last.result.body.json.data.status = "unhealthy"

\* the enumeration of the clients threw inside performHealthCheck and the
\* handler answered with the error envelope
C13_Witness ==
  /\ Handled /\ ~last.threw
  /\ last.clients.form = "throws"
  /\ last.result # NullResult
  /\ last.result.statusCode = 503
  /\ "error" \in DOMAIN last.result.body.json.data

\* C14: the handler returns null, without running a check, for a path that
\* is missing, empty or without "/health", and an envelope for a path that
\* contains "/health".
C14_OnlyHealthPaths ==
  Handled =>
     IF ContainsHealth(last.event.path)
       THEN last.result # NullResult /\ last.ran
       ELSE last.result = NullResult /\ ~last.ran /\ consoleWarn = <<>>

\* "/api/healthz" is answered with an envelope
C14_Witness ==
  /\ Handled
  /\ Len(last.event.path) = 12 /\ ContainsHealth(last.event.path)
  /\ last.result # NullResult
  /\ last.result.statusCode = 200

\* "/healt" is not answered although a required variable is missing
C14_WitnessNull ==
  /\ Handled
  /\ Len(last.event.path) = 6 /\ last.event.path[2] = "h"
  /\ last.serviceName = "auth-service"
  /\ procEnv["DYNAMODB_TABLE_NAME"] = UNSET
  /\ last.result = NullResult

\* C15: for a path containing "/health" the envelope has status code 200
\* exactly when the overall status is healthy or degraded and 503 exactly
\* when it is unhealthy.
C15_StatusCode ==
  (Handled /\ ContainsHealth(last.event.path)) =>
     LET overall == last.result.body.json.data.status
     IN /\ overall \in {"healthy", "degraded", "unhealthy"}
        /\ last.result.statusCode = 200 <=>
             overall \in {"healthy", "degraded"}
        /\ last.result.statusCode = 503 <=> overall = "unhealthy"

\* a degraded service is answered with 200
C15_Witness ==
  /\ Handled /\ ContainsHealth(last.event.path)
  /\ last.result.body.json.data.status = "degraded"
  /\ last.result.statusCode = 200

\* the catalog keys of the checked service that are absent or empty
MissingCatalogKeys ==
  IF last.serviceName \in DOMAIN SERVICE_ENV_VARS
    THEN {k \in Elems(SERVICE_ENV_VARS[last.serviceName]) : AbsentOrEmpty(k)}
    ELSE {}

\* C16: with checkEnvironment enabled and NODE_ENV "production", a missing
\* catalog key makes checks.environment.status warning, is listed in
\* checks.environment.missing and makes the overall status at least
\* degraded; with no key missing checks.environment.status is ok.
C16_EnvironmentTruthInProduction ==
  (CheckedHealth /\ Enabled(last.options.checkEnvironment)
   /\ nodeEnv = "production") =>
     IF MissingCatalogKeys # {}
       THEN /\ StatusOf(last.result.checks["environment"]) = "warning"
            /\ MissingCatalogKeys
                 \subseteq Elems(last.result.checks["environment"].missing)
            /\ last.result.status \in {"degraded", "unhealthy"}
       ELSE StatusOf(last.result.checks["environment"]) = "ok"

\* C20: when every catalog key of the service is set and every supplied
\* client is present and passes its check, performHealthCheck (environment
\* and client checks enabled) returns healthy, checks.environment.status ok
\* and an ok entry under the name of every supplied client.
C20_HealthyEndToEnd ==
  (/\ CheckedHealth
   /\ Enabled(last.options.checkEnvironment)
   /\ Enabled(last.options.checkClients)
   /\ last.clients.form = "object"
   /\ MissingCatalogKeys = {}
   /\ \A e \in SuppliedEntries :
         e.client \in {PlainHandle, ReportingHandle("ok")}) =>
     /\ last.result.status = "healthy"
     /\ StatusOf(last.result.checks["environment"]) = "ok"
     /\ \A e \in SuppliedEntries :
          /\ e.name \in DOMAIN last.result.checks
          /\ StatusOf(last.result.checks[e.name]) = "ok"

\* severity of an overall status
Rank(status) ==
  IF status = "healthy" THEN 0 ELSE IF status = "degraded" THEN 1 ELSE 2

\* C21: within one performHealthCheck call the overall status never moves
\* down the order healthy < degraded < unhealthy from one processed
\* sub-check to the next.
C21_StatusOnlyWorsens ==
  CheckedHealth =>
     \A i \in 1..(Len(last.trace) - 1) :
        Rank(last.trace[i]) <= Rank(last.trace[i + 1])

\* a missing handle is processed after a throwing one and the status stays
\* unhealthy
C21_Witness ==
  /\ CheckedHealth
  /\ Enabled(last.options.checkClients)
  /\ Len(last.clients.entries) = 2
  /\ last.clients.entries[1].client = ThrowingHandle
  /\ last.clients.entries[2].client = NullHandle
  /\ last.trace[Len(last.trace) - 1] = "unhealthy"
  /\ last.trace[Len(last.trace)] = "unhealthy"
  /\ last.result.status = "unhealthy"

\* C22: performHealthCheck on the same named handles in the other insertion
\* order returns the same overall status and the same entries of checks.
C22_OrderInsensitive ==
  (CheckedHealth /\ Len(last.clients.entries) = 2) =>
     \A other \in {performHealthCheck(last.serviceName,
                     ClientsObject(<<last.clients.entries[2],
                                     last.clients.entries[1]>>),
                     last.options)} :
        /\ ~other.threw
        /\ other.value.status = last.result.status
        /\ other.value.checks = last.result.checks

\* a throwing handle and a missing handle under two names, client checks on
C22_Witness ==
  /\ CheckedHealth
  /\ Enabled(last.options.checkClients)
  /\ Len(last.clients.entries) = 2
  /\ last.clients.entries[1].client = NullHandle
  /\ last.clients.entries[2].client = ThrowingHandle
  /\ last.result.status = "unhealthy"
  /\ StatusOf(last.result.checks[last.clients.entries[1].name]) = "warning"

\* the record the loop writes for one handle
OwnRecord(client) == checkClient(client, "healthy").check

ClientsChecked ==
  /\ CheckedHealth
  /\ Enabled(last.options.checkClients)
  /\ last.clients.form = "object"

\* C23: when the check of a client entry throws, performHealthCheck returns
\* with that entry recorded as { status: error, error }, overall status
\* unhealthy, and every other supplied entry under its own name in checks.
C23_ThrowingEntryIsolated ==
  (ClientsChecked /\ \E e \in SuppliedEntries : e.client = ThrowingHandle) =>
     /\ last.result.status = "unhealthy"
     /\ \A e \in SuppliedEntries :
          /\ e.name \in DOMAIN last.result.checks
          /\ last.result.checks[e.name] = OwnRecord(e.client)

\* position in the trace of the status after the i-th client entry
TraceIndex(i) ==
  1 + (IF Enabled(last.options.checkEnvironment) THEN 1 ELSE 0) + i

\* C24: a null handle is recorded as { status: warning, initialized: false,
\* message: "Client not initialized" } under its name with an overall status
\* of at least degraded; a present handle without getClientHealth is recorded
\* as { status: ok, initialized: true } and leaves the overall status as it
\* was.
C24_MissingAndPlainHandles ==
  ClientsChecked =>
     \A i \in 1..Len(last.clients.entries) :
        LET e == last.clients.entries[i]
        IN /\ e.client = NullHandle =>
                /\ last.result.checks[e.name] =
                     [status |-> "warning", initialized |-> FALSE,
                      message |-> "Client not initialized"]
                /\ last.result.status \in {"degraded", "unhealthy"}
           /\ e.client = PlainHandle =>
                /\ last.result.checks[e.name] =
                     [status |-> "ok", initialized |-> TRUE]
                /\ last.trace[TraceIndex(i)] = last.trace[TraceIndex(i) - 1]

Enveloped == last.op = "createLambdaHealthResponse"

\* C27: an envelope built for a health payload, by the middleware or by
\* createLambdaHealthResponse(healthData) with the default status code, has
\* status code 200 for a healthy or degraded payload and 503 for an
\* unhealthy one.
C27_EnvelopeStatusCode ==
  ((Enveloped /\ last.statusCode = UNDEF)
   \/ (Handled /\ last.result # NullResult)) =>
     last.result.statusCode =
       (IF last.result.body.json.data.status \in {"healthy", "degraded"}
          THEN 200 ELSE 503)

\* C29: with checkEnvironment enabled, checks.environment is the record of
\* the environment sub-check whatever the names of the client entries.
C29_EnvironmentEntryKept ==
  (CheckedHealth /\ Enabled(last.options.checkEnvironment)) =>
     \A env \in {checkEnvironmentStep(last.serviceName,
                   [checks |-> EmptyChecks, overallStatus |-> "healthy",
                    trace |-> <<"healthy">>, warned |-> <<>>])} :
        last.result.checks["environment"] = env.checks["environment"]

\* C30: in an envelope the middleware builds from a performHealthCheck
\* result, meta.service is the service name of the middleware and
\* meta.version is the serviceVersion carried in data.
C30_MetaMatchesData ==
  (/\ Handled /\ last.result # NullResult
   /\ "serviceVersion" \in DOMAIN last.result.body.json.data) =>
     /\ last.result.body.json.meta.service = last.serviceName
     /\ last.result.body.json.meta.version =
          last.result.body.json.data.serviceVersion

\* ------------------------------------- ClientRegistry claims, continued
\* C25: getClient(kind) with an empty slot and a registered substitute
\* returns the substitute if and only if isTestEnvironment() is true.
C25_SubstituteIffTestEnvironment ==
  (GotClient /\ ~last.held /\ Truthy(Mock(last.kind))) =>
     (last.value = Mock(last.kind) <=> isTestEnvironment = JSBool(TRUE))

\* C26: the initializeClients() call at module load never throws, so the
\* module load completes whatever the constructors do.
C26_LoadNeverThrows ==
  last.op = "load" => (~last.threw /\ loaded)

\* C28: when a constructor throws inside getClient(kind) the slot of the kind
\* stays empty and getClientHealth reports initialized false; the next
\* getClient(kind) that returns found the slot empty and returns the
\* registered substitute or a handle built by that call, never the low-level
\* DynamoDB client.
C28_FailedConstructionLeavesSlotEmpty ==
  [][/\ (last'.op = "getClient" /\ last'.threw) =>
          /\ Slot(last.kind)' = NULL
          /\ ~Health(last.kind).initialized'
     /\ (/\ last.op = "getClient" /\ last.threw
         /\ last'.op = "getClient" /\ ~last'.threw
         /\ last'.kind = last.kind) =>
          /\ ~last'.held
          /\ last'.value = Slot(last.kind)'
          /\ last'.value # dynamoDbClient'
          /\ IF SubstituteHonored(last.kind)
               THEN last'.value = Mock(last.kind)
               ELSE last'.value \in Built /\ last'.value = nextId' - 1]_vars

\* getDynamoDbClient() threw in DynamoDBDocumentClient.from after the
\* low-level client was built
C28_Witness ==
  /\ last.op = "getClient" /\ last.threw /\ last.kind = "dynamodb"
  /\ Truthy(dynamoDbClient)
  /\ dynamoDbDocumentClient = NULL
  /\ ~getClientHealth.dynamodb.initialized

====
